---- MODULE Spec2Model ----
(***************************************************************************)
(* A model of @schemafire/firestore's Model class (src/model.ts): the      *)
(* Action Log, the mutation API (create / update / delete / attach), the   *)
(* transaction orchestrator buildTransaction with its mirror side effect,  *)
(* and the run() lifecycle with its reconciliation of the local state.     *)
(*                                                                         *)
(* One Model instance is bound to one primary document.  Field values are  *)
(* strings; "undef" is JavaScript's undefined (an absent field) and "bad"  *)
(* is a value the schema codec rejects.  Base fields and the server        *)
(* timestamps that serverUpdateTimestamp adds are left out of the data     *)
(* maps: no operation of the model reads them.                             *)
(***************************************************************************)
EXTENDS Naturals, Sequences, FiniteSets, TLC

\* ------------------------------------------------------------------ bounds
\* Calls of the public API (mutations and run) made in one behaviour.
MaxCalls == 3
\* Attempt ceiling the host transaction applies when run() passes none.
HostMaxAttempts == 2

\* ------------------------------------------------------------- data maps
Fields == {"a", "b", "c"}
Undef == "undef"
Bad == "bad"
Vals == {"v1", "v2"}
EmptyData == [f \in Fields |-> Undef]

\* lodash isEmpty on a plain object
isEmpty(d) == \A f \in Fields : d[f] = Undef
Keys(d) == {f \in Fields : d[f] # Undef}
\* { ...d, ...p }
Merge(d, p) == [f \in Fields |-> IF p[f] # Undef THEN p[f] ELSE d[f]]
\* lodash pick(keys, d)
pick(keys, d) == [f \in Fields |-> IF f \in keys THEN d[f] ELSE Undef]
Data(a, b, c) == [f \in Fields |-> CASE f = "a" -> a [] f = "b" -> b [] OTHER -> c]
\* JavaScript truthiness of a field value
Truthy(v) == v # Undef

\* --------------------------------------------------------------- actions
NoCallback == "none"
Action(type, data, callback) == [type |-> type, data |-> data, callback |-> callback]
actionsContain(actions, type) == \E i \in 1..Len(actions) : actions[i].type = type
actionsContainDelete(actions) == actionsContain(actions, "Delete")
actionsContainCallback(actions) == actionsContain(actions, "Callback")
actionsContainFind(actions) == actionsContain(actions, "Find")
actionsContainFindOrCreate(actions) == actionsContain(actions, "FindOrCreate")
actionsContainCreate(actions) == actionsContain(actions, "Create")
actionsContainUpdate(actions) == actionsContain(actions, "Update")
\* The first Query action of the list; its type is "none" when there is none.
findQueryAction(actions) ==
  IF actionsContain(actions, "Query")
  THEN actions[CHOOSE i \in 1..Len(actions) :
                 /\ actions[i].type = "Query"
                 /\ \A j \in 1..(i - 1) : actions[j].type # "Query"]
  ELSE [type |-> "none", data |-> [f \in {"a", "b", "c"} |-> "undef"], callback |-> "none"]

\* Protected base fields (schema version and the system timestamps).
baseProps == {"schemaVersion", "createdAt", "updatedAt"}
isBaseProp(key) == key \in baseProps

\* The fold of the payloads of the Create, FindOrCreate and Update actions in
\* list order, later payloads overwriting earlier ones.  No action kind of
\* the Action Log carries a field removal, so withoutDeletes selects nothing.
RECURSIVE buildUpdatedData(_, _, _)
buildUpdatedData(rawData, actions, withoutDeletes) ==
  IF actions = <<>> THEN EmptyData
  ELSE LET n == Len(actions)
           rest == buildUpdatedData(rawData, SubSeq(actions, 1, n - 1), withoutDeletes)
           last == actions[n]
       IN IF last.type \in {"Create", "FindOrCreate", "Update"}
          THEN Merge(rest, last.data)
          ELSE rest

\* ---------------------------------------------------------------- schema
NoField == "nofield"
NoMirror == [declared |-> FALSE, name |-> "none", idField |-> NoField, fields |-> {}]
MirrorRule(name, idField) ==
  [declared |-> TRUE, name |-> name, idField |-> idField, fields |-> {"a", "b"}]
\* key.includes('.')
IsDotPath(name) == name = "stats.user"
Config(forceGet, mirror, autoValidate) ==
  [forceGet |-> forceGet, mirror |-> mirror, autoValidate |-> autoValidate,
   maxAttempts |-> Undef]
\* The schemas a behaviour may start with.
Schemas ==
  { [config |-> Config(FALSE, FALSE, TRUE), mirror |-> NoMirror],
    [config |-> [Config(TRUE, TRUE, FALSE) EXCEPT !.maxAttempts = "one"],
     mirror |-> MirrorRule("user", NoField)],
    [config |-> Config(FALSE, TRUE, TRUE), mirror |-> MirrorRule("stats.user", "b")] }
getIdFieldFromSchema(s) == s.mirror.idField
\* Fields the codec requires; every present field must hold a valid value.
RequiredFields == {"a"}
\* codec.decode of the props `keys` applied to data: TRUE when it is a Right.
decode(keys, data) ==
  \A f \in keys : /\ data[f] # Bad
                  /\ (f \in RequiredFields => data[f] # Undef)

\* The caller's RunConfig: an option is "undef" when the caller omits it.
RunConfig(forceGet, mirror, autoValidate, maxAttempts) ==
  [forceGet |-> forceGet, mirror |-> mirror, autoValidate |-> autoValidate,
   maxAttempts |-> maxAttempts]
\* A caller's option is "yes", "no" or "undef"; maxAttempts is "one" or "undef".
NoConfig == RunConfig(Undef, Undef, Undef, Undef)
RunConfigs ==
  { NoConfig,
    RunConfig("yes", Undef, Undef, Undef),
    RunConfig(Undef, Undef, "no", "one") }
\* One option of { ...schema.config, ...config }
Opt(callerValue, default) == IF callerValue = Undef THEN default ELSE callerValue = "yes"
\* The attempt ceiling the host applies for a maxAttempts option.
Ceiling(maxAttempts) == IF maxAttempts = "one" THEN 1 ELSE HostMaxAttempts

\* -------------------------------------------------------------- snapshots
NoSnap == [defined |-> FALSE, exists |-> FALSE, data |-> EmptyData]
Snapshot(db) == [defined |-> TRUE, exists |-> db.exists, data |-> db.data]
NoDoc == [exists |-> FALSE, data |-> EmptyData]
Doc(data) == [exists |-> TRUE, data |-> data]
snapshotExists(snap, existsViaCreation) ==
  existsViaCreation \/ (snap.defined /\ snap.exists)

\* ------------------------------------------------ host transaction handle
MirrorIds == {"self"} \cup Vals \cup {Bad}
NoMirrorDoc == [exists |-> FALSE, val |-> EmptyData]
\* One call on the transaction handle.  coll is "primary" or "mirror"; marker
\* is TRUE for the write of FieldValue.delete() under the mirror key.
Op(kind, coll, id, data, marker) ==
  [kind |-> kind, coll |-> coll, id |-> id, data |-> data, marker |-> marker]
IsRead(op) == op.kind \in {"get", "query"}
IsWrite(op) == ~IsRead(op)

\* The effect of one committed write on the primary document.
ApplyPrimary(db, op) ==
  CASE op.kind = "set" -> Doc(op.data)
    [] op.kind = "create" -> Doc(op.data)
    [] op.kind = "setMerge" -> Doc(Merge(db.data, op.data))
    [] op.kind = "delete" -> NoDoc
    [] OTHER -> db
\* The effect of one committed write on a mirror document: val is the map
\* stored under the mirror key.
ApplyMirror(md, op) ==
  CASE op.kind = "setMerge" /\ op.marker -> [exists |-> TRUE, val |-> EmptyData]
    [] op.kind = "setMerge" /\ ~op.marker -> [exists |-> TRUE, val |-> Merge(md.val, op.data)]
    [] op.kind = "update" -> [exists |-> TRUE, val |-> op.data]
    [] OTHER -> md
\* A write the host refuses at commit: create of an existing document,
\* update of a missing one.
Refused(st, op) ==
  \/ op.coll = "primary" /\ op.kind = "create" /\ st.db.exists
  \/ op.coll = "mirror" /\ op.kind = "update" /\ ~st.mirror[op.id].exists
RECURSIVE Commit(_, _)
\* The store after the writes of ops, in order; ok is FALSE when one is refused.
Commit(st, ops) ==
  IF ops = <<>> \/ ~st.ok THEN st
  ELSE LET op == Head(ops)
           next == IF Refused(st, op) THEN [st EXCEPT !.ok = FALSE]
                   ELSE IF op.coll = "primary"
                        THEN [st EXCEPT !.db = ApplyPrimary(st.db, op)]
                        ELSE [st EXCEPT !.mirror[op.id] = ApplyMirror(st.mirror[op.id], op)]
       IN Commit(next, Tail(ops))

\* ------------------------------------------------------ transaction state
NoStatus == "none"
NoSync == [defined |-> FALSE, snap |-> NoSnap, hasData |-> FALSE, data |-> EmptyData]
createTransactionState(rawData, actions) ==
  [rawData |-> rawData, actions |-> <<>>, actionsRun |-> {}, errors |-> <<>>,
   lastRunStatus |-> NoStatus, syncData |-> NoSync]

\* A step works on cx = [state, ops]: the Transaction State and the calls
\* made so far on the transaction handle.  db is the document as the
\* transaction reads it.
getTransaction(cx, db, noData) ==
  LET withData == db.exists /\ ~noData
  IN [state |-> [cx.state EXCEPT
                   !.syncData = [defined |-> TRUE, snap |-> Snapshot(db),
                                 hasData |-> withData,
                                 data |-> IF withData THEN db.data ELSE EmptyData],
                   !.rawData = IF withData THEN db.data ELSE @,
                   !.lastRunStatus = IF db.exists THEN "found" ELSE "not-found",
                   !.actionsRun = @ \cup {"get"}],
      ops |-> Append(cx.ops, Op("get", "primary", "self", EmptyData, FALSE))]

\* A query clause list is a map field -> value: every set field must equal
\* the value (the '==' operator).  The collection holds the primary document.
Matches(db, clauses) == db.exists /\ \A f \in Keys(clauses) : db.data[f] = clauses[f]
\* Resolves the query to its first matching document, or to not-found.
queryTransaction(cx, db, clauses) ==
  LET found == Matches(db, clauses)
      hit == IF found THEN db ELSE NoDoc
  IN [state |-> [cx.state EXCEPT
                   !.syncData = [defined |-> TRUE, snap |-> Snapshot(hit),
                                 hasData |-> found,
                                 data |-> IF found THEN db.data ELSE EmptyData],
                   !.rawData = IF found THEN db.data ELSE @,
                   !.lastRunStatus = IF found THEN "found" ELSE "not-found",
                   !.actionsRun = @ \cup {"query"}],
      ops |-> Append(cx.ops, Op("query", "primary", "self", clauses, FALSE))]

createTransaction(cx, data, force) ==
  [state |-> [cx.state EXCEPT
                !.rawData = data,
                !.lastRunStatus = IF force THEN "force-created" ELSE "created",
                !.actionsRun = @ \cup {IF force THEN "forceCreate" ELSE "create"}],
   ops |-> Append(cx.ops, Op(IF force THEN "set" ELSE "create", "primary", "self", data, FALSE))]

updateTransaction(cx, data) ==
  [state |-> [cx.state EXCEPT
                !.lastRunStatus = "updated",
                !.actionsRun = @ \cup {"update"}],
   ops |-> Append(cx.ops, Op("setMerge", "primary", "self", data, FALSE))]

deleteTransaction(cx) ==
  [state |-> [cx.state EXCEPT
                !.lastRunStatus = "deleted",
                !.actionsRun = @ \cup {"delete"}],
   ops |-> Append(cx.ops, Op("delete", "primary", "self", EmptyData, FALSE))]

\* ---------------------------------------------------------------- callbacks
Callbacks == {"cbSetC", "cbNoop"}
\* What a callback does when invoked: cbSetC calls update({c: "v1"}),
\* cbNoop only reads.  The actions its calls append, in order.
CallbackActions(cb) ==
  IF cb = "cbSetC" THEN <<Action("Update", Data(Undef, Undef, "v1"), NoCallback)>>
  ELSE <<>>
RECURSIVE CallbackAppends(_)
CallbackAppends(actions) ==
  IF actions = <<>> THEN <<>>
  ELSE (IF Head(actions).type = "Callback" THEN CallbackActions(Head(actions).callback)
        ELSE <<>>) \o CallbackAppends(Tail(actions))
\* Invokes every queued callback in insertion order; what they enqueue goes
\* onto the state's own action list.
runCallbacks(cx, actions) ==
  [cx EXCEPT !.state.actions = @ \o CallbackAppends(actions)]

buildMirrorData(allUpdates, fields) == pick(fields, allUpdates)

\* ------------------------------------------------------- the Model's methods
\* self is the Model as a method reads it: [schema, actions, rawData,
\* existsViaCreation, currentRunConfig].  The id of a Model is always set
\* (the constructor falls back to the document reference's id).
canMirror(self) == self.schema.mirror.declared /\ self.currentRunConfig.mirror

mirrorTransaction_noEmptyGuard(self, cx, allUpdates, isDelete) ==
  IF ~canMirror(self) THEN cx
  ELSE LET rule == self.schema.mirror
           mirrorId == IF rule.idField # NoField THEN self.rawData[rule.idField] ELSE "self"
           data == buildMirrorData(allUpdates, rule.fields)
       IN IF ~Truthy(mirrorId) THEN cx
          ELSE IF isDelete
          THEN [cx EXCEPT !.ops = Append(@, Op("setMerge", "mirror", mirrorId, EmptyData, TRUE))]
          ELSE LET dotted == IF IsDotPath(rule.name)
                             THEN Append(cx.ops, Op("update", "mirror", mirrorId, data, FALSE))
                             ELSE cx.ops
               IN [cx EXCEPT !.ops = Append(dotted, Op("setMerge", "mirror", mirrorId, data, FALSE))]

mirrorTransaction(self, cx, allUpdates, isDelete) ==
  IF ~canMirror(self) THEN cx
  ELSE LET rule == self.schema.mirror
           mirrorId == IF rule.idField # NoField THEN self.rawData[rule.idField] ELSE "self"
           data == buildMirrorData(allUpdates, rule.fields)
       IN IF ~Truthy(mirrorId) THEN cx
          ELSE IF isDelete
          THEN [cx EXCEPT !.ops = Append(@, Op("setMerge", "mirror", mirrorId, EmptyData, TRUE))]
          ELSE IF isEmpty(data) THEN cx
          ELSE LET dotted == IF IsDotPath(rule.name)
                             THEN Append(cx.ops, Op("update", "mirror", mirrorId, data, FALSE))
                             ELSE cx.ops
               IN [cx EXCEPT !.ops = Append(dotted, Op("setMerge", "mirror", mirrorId, data, FALSE))]

\* The data validate() hands to the codec: the fields it decodes, with the
\* values it decodes them at.
validatedData(self) ==
  LET updatedKeys == Keys(buildUpdatedData(self.rawData, self.actions, FALSE))
  IN IF actionsContainCreate(self.actions) \/ actionsContainFindOrCreate(self.actions)
     THEN self.rawData
     ELSE IF actionsContainUpdate(self.actions) THEN pick(updatedKeys, self.rawData)
     ELSE self.rawData

\* TRUE when validate() returns an error.
validate(self) ==
  LET data == self.rawData
      isCreateAction == actionsContainCreate(self.actions)
                          \/ actionsContainFindOrCreate(self.actions)
      updatedKeys == Keys(buildUpdatedData(self.rawData, self.actions, FALSE))
  IN IF isCreateAction THEN ~decode(Fields, data)
     ELSE IF actionsContainUpdate(self.actions) THEN ~decode(updatedKeys, pick(updatedKeys, data))
     ELSE ~decode(Fields, data)

throwIfInvalid_flagInverted(self) == ~self.currentRunConfig.autoValidate /\ validate(self)

\* TRUE when throwIfInvalid() throws.
throwIfInvalid(self) == self.currentRunConfig.autoValidate /\ validate(self)

Return(cx) == [threw |-> FALSE, state |-> cx.state, ops |-> cx.ops]
Throw(cx) == [threw |-> TRUE, state |-> cx.state, ops |-> cx.ops]

\* The delete branch of an attempt.
DeletePath(self, cx0, db) ==
  LET idField == getIdFieldFromSchema(self.schema)
      cx1 == IF idField # NoField /\ ~Truthy(self.rawData[idField])
             THEN getTransaction(cx0, db, FALSE) ELSE cx0
  IN Return(deleteTransaction(mirrorTransaction(self, cx1, EmptyData, TRUE)))

UpdatePath_getAfterUpdate(self, cx, db, data, alwaysGet) ==
  LET emptyData == isEmpty(data)
  IN IF emptyData THEN Return(IF alwaysGet THEN getTransaction(cx, db, FALSE) ELSE cx)
     ELSE IF throwIfInvalid(self) THEN Throw(cx)
     ELSE LET cx1 == mirrorTransaction(self, updateTransaction(cx, data), data, FALSE)
          IN Return(IF alwaysGet THEN getTransaction(cx1, db, TRUE) ELSE cx1)
\* The last branch of an attempt: the optional read and the update.
UpdatePath(self, cx, db, data, alwaysGet) ==
  LET emptyData == isEmpty(data)
      cx1 == IF alwaysGet THEN getTransaction(cx, db, ~emptyData) ELSE cx
  IN IF emptyData THEN Return(cx1)
     ELSE IF throwIfInvalid(self) THEN Throw(cx1)
     ELSE Return(mirrorTransaction(self, updateTransaction(cx1, data), data, FALSE))

\* The create branches of an attempt.
CreatePath(self, cx, dataWithoutDeletes, force) ==
  IF throwIfInvalid(self) THEN Throw(cx)
  ELSE Return(mirrorTransaction(self, createTransaction(cx, dataWithoutDeletes, force),
                                dataWithoutDeletes, FALSE))

AttemptActions_logOnly(self, cx) == self.actions

\* The list the attempt folds: the Action Log, then what callbacks enqueued.
AttemptActions(self, cx) == self.actions \o cx.state.actions

\* An attempt past the delete branch: query, callbacks, fold, find, create or
\* update.
MainPath(self, cx0, db, alwaysGet) ==
       LET queryModelAction == findQueryAction(self.actions)
           cxq == IF queryModelAction.type = "Query"
                  THEN queryTransaction(cx0, db, queryModelAction.data) ELSE cx0
           cx1 == IF actionsContainCallback(self.actions)
                  THEN runCallbacks(getTransaction(cxq, db, FALSE), self.actions)
                  ELSE cxq
           actions == AttemptActions(self, cx1)
           data == buildUpdatedData(cx1.state.rawData, actions, FALSE)
           dataWithoutDeletes == buildUpdatedData(cx1.state.rawData, actions, TRUE)
           cx2 == IF actionsContainFind(self.actions)
                  THEN getTransaction(cx1, db, FALSE) ELSE cx1
           cx3 == IF actionsContainFindOrCreate(self.actions)
                  THEN getTransaction(cx2, db, FALSE) ELSE cx2
       IN IF /\ actionsContainFindOrCreate(self.actions)
             /\ ~snapshotExists(cx3.state.syncData.snap, self.existsViaCreation)
          THEN CreatePath(self, cx3, dataWithoutDeletes, FALSE)
          ELSE IF actionsContainCreate(self.actions)
          THEN CreatePath(self, cx3, dataWithoutDeletes, TRUE)
          ELSE UpdatePath(self, cx3, db, data, alwaysGet)

Attempt_deleteHeadOnly(self, db, alwaysGet) ==
  LET cx0 == [state |-> createTransactionState(self.rawData, self.actions), ops |-> <<>>]
  IN IF self.actions # <<>> /\ self.actions[1].type = "Delete"
     THEN DeletePath(self, cx0, db)
     ELSE MainPath(self, cx0, db, alwaysGet)

\* One invocation of the function buildTransaction hands to runTransaction,
\* reading the primary document as db.
Attempt(self, db, alwaysGet) ==
  LET cx0 == [state |-> createTransactionState(self.rawData, self.actions), ops |-> <<>>]
  IN IF actionsContainDelete(self.actions) THEN DeletePath(self, cx0, db)
     ELSE MainPath(self, cx0, db, alwaysGet)

buildTransactionSkips_flagInverted(actions, alwaysGet) == actions = <<>> /\ alwaysGet

\* buildTransaction returns without a transaction.
buildTransactionSkips(actions, alwaysGet) == actions = <<>> /\ ~alwaysGet

\* { ...this.schema.config, ...config }
setCurrentConfig(s, config) ==
  [forceGet |-> Opt(config.forceGet, s.config.forceGet),
   mirror |-> Opt(config.mirror, s.config.mirror),
   autoValidate |-> Opt(config.autoValidate, s.config.autoValidate),
   maxAttempts |-> IF config.maxAttempts = Undef THEN s.config.maxAttempts
                   ELSE config.maxAttempts]
\* setCurrentConfig() with no argument
DefaultConfig(s) == setCurrentConfig(s, NoConfig)

\* syncData(record) on the local fields m = [rawData, snap]
syncData(m, record) ==
  [rawData |-> IF record.hasData THEN record.data ELSE m.rawData,
   snap |-> record.snap]

\* The local fields after updateModelWithTransactionState(state).
updateModelWithTransactionState(m, state) ==
  LET synced == IF state.syncData.defined THEN syncData(m, state.syncData) ELSE m
  IN [rawData |-> IF "delete" \in state.actionsRun THEN EmptyData ELSE synced.rawData,
      snap |-> synced.snap]

StatusesOfExistence == {"updated", "created", "force-created"}
manageLastRunStatus_noForceCreated(existsViaCreation_, lastRunStatus_) ==
  IF lastRunStatus_ = NoStatus THEN existsViaCreation_
  ELSE lastRunStatus_ \in {"updated", "created"}
manageLastRunStatus_sticky(existsViaCreation_, lastRunStatus_) ==
  existsViaCreation_ \/ lastRunStatus_ \in StatusesOfExistence

\* existsViaCreation after manageLastRunStatus()
manageLastRunStatus(existsViaCreation_, lastRunStatus_) ==
  IF lastRunStatus_ = NoStatus THEN existsViaCreation_
  ELSE lastRunStatus_ \in StatusesOfExistence

\* TRUE when forceGetIfNeeded(config) reads the document again.
forceGetIfNeeded(config, actionsRun_) ==
  config.forceGet = "yes" /\ ("create" \in actionsRun_ \/ "forceCreate" \in actionsRun_)

\* getRecord(doc): the record of a plain read of the primary document.
getRecord(db) ==
  [defined |-> TRUE, snap |-> Snapshot(db), hasData |-> db.exists,
   data |-> IF db.exists THEN db.data ELSE EmptyData]

\* ------------------------------------------------------------------ state
VARIABLES
  schema,              \* the schema the Model was built from
  dbDoc,               \* the primary document in the database
  mirror,              \* the mirror documents, by id
  actions,             \* the Action Log
  rawData,             \* the local data view
  snap,                \* the last snapshot the Model holds
  existsViaCreation,
  hasRunSuccessfully,
  currentRunConfig,
  errors,
  lastRunStatus,
  actionsRun,
  pc,                  \* "idle", "tx" (in runTransaction) or "refresh" (in getSnap)
  runConfig,           \* the config argument of the run() in flight
  attempts,            \* attempts the host transaction has made in this run()
  txOps,               \* the calls of the latest attempt on the transaction handle
  txEnqueued,          \* the actions callbacks enqueued in the latest attempt
  txLog,               \* the Action Log as the attempt that committed read it
  call,                \* the last call of the public API and how it ended
  runPre,              \* the Model and the store as the last run() found them
  updates,             \* the payloads of the update() calls since the log was last cleared
  calls                \* calls of the public API made so far

vars == <<schema, dbDoc, mirror, actions, rawData, snap, existsViaCreation,
          hasRunSuccessfully, currentRunConfig, errors, lastRunStatus, actionsRun,
          pc, runConfig, attempts, txOps, txEnqueued, txLog, call, runPre, updates,
          calls>>

store == <<dbDoc, mirror>>
transient == <<currentRunConfig, errors, lastRunStatus, actionsRun>>
inRun == <<pc, runConfig, attempts, txOps, txEnqueued, txLog, runPre>>

Self == [schema |-> schema, actions |-> actions, rawData |-> rawData,
         existsViaCreation |-> existsViaCreation, currentRunConfig |-> currentRunConfig]

\* model.exists
exists == snapshotExists(snap, existsViaCreation)

\* How a call ended.  outcome: "returned", "threw", "resolved", "rejected";
\* tx: a host transaction was started; status: lastRunStatus of the state the
\* transaction returned; arg: the payload of a create or update; keys: the
\* argument of delete(keys).
Call(op, outcome, error, tx, status, arg) ==
  [op |-> op, outcome |-> outcome, error |-> error, tx |-> tx, status |-> status,
   arg |-> arg, keys |-> <<>>]
NoCall == Call("new", "returned", "none", FALSE, NoStatus, EmptyData)
Pre == [actions |-> actions, rawData |-> rawData, snap |-> snap,
        existsViaCreation |-> existsViaCreation,
        hasRunSuccessfully |-> hasRunSuccessfully,
        dbDoc |-> dbDoc, mirror |-> mirror, updates |-> updates]

\* ----------------------------------------------------------- construction
InitialDocs == {NoDoc, Doc(Data("v2", "v1", "v1"))}
\* The mirror documents of the model's own id and of id "v1" exist and hold
\* field b under the mirror key; the others do not exist.
InitialMirror ==
  [i \in MirrorIds |-> IF i \in {"self", "v1"}
                       THEN [exists |-> TRUE, val |-> Data(Undef, "v1", Undef)]
                       ELSE NoMirrorDoc]
InitialPayload == Data("v1", "v2", Undef)
\* The clauses of new Model({type: Query, clauses}): a == "v2".
InitialClauses == Data("v2", Undef, Undef)

\* The constructor: new Model({schema, id}) ("id"), with type Find, Query,
\* Create or FindOrCreate and data or clauses (setupInitialActions), or
\* new Model({schema, snap, data}) for the snapshot of an existing document
\* ("snap").
Init ==
  /\ schema \in Schemas
  /\ dbDoc \in InitialDocs
  /\ mirror = InitialMirror
  /\ \E how \in {"id", "Find", "Query", "Create", "FindOrCreate", "snap"} :
       /\ how = "snap" => dbDoc.exists
       /\ actions = CASE how = "Find" -> <<Action("Find", EmptyData, NoCallback)>>
                      [] how = "Query" -> <<Action("Query", InitialClauses, NoCallback)>>
                      [] how \in {"Create", "FindOrCreate"} ->
                           <<Action(how, InitialPayload, NoCallback)>>
                      [] OTHER -> <<>>
       /\ rawData = CASE how = "snap" -> dbDoc.data
                      [] how \in {"Create", "FindOrCreate"} -> InitialPayload
                      [] OTHER -> EmptyData
       /\ snap = IF how = "snap" THEN Snapshot(dbDoc) ELSE NoSnap
  /\ existsViaCreation = FALSE
  /\ hasRunSuccessfully = FALSE
  /\ currentRunConfig = schema.config
  /\ errors = <<>>
  /\ lastRunStatus = NoStatus
  /\ actionsRun = {}
  /\ pc = "idle"
  /\ runConfig = NoConfig
  /\ attempts = 0
  /\ txOps = <<>>
  /\ txEnqueued = <<>>
  /\ txLog = <<>>
  /\ call = NoCall
  /\ calls = 0
  /\ updates = <<>>
  /\ runPre = Pre

\* ------------------------------------------------------------ mutation API
CreatePayloads == {Data("v1", "v2", Undef), Data(Bad, Undef, Undef)}
UpdatePayloads == {Data("v1", Undef, "v2"), Data(Undef, Undef, "v2"),
                   Data("v2", Undef, Undef)}
\* undefined (no argument) is the empty list here: delete([]) queues nothing
\* and is left out of the inputs.
NoKeys == <<>>
DeleteKeys == {NoKeys, <<"schemaVersion">>, <<"c">>, <<"a", "schemaVersion">>}
FieldOrder == <<"a", "b", "c">>

Idle == pc = "idle" /\ calls < MaxCalls

\* create(data, force)
create(data, force) ==
  /\ Idle
  /\ actions' = Append(actions, Action(IF force THEN "Create" ELSE "FindOrCreate",
                                       data, NoCallback))
  /\ rawData' = Merge(rawData, data)
  /\ call' = Call("create", "returned", "none", FALSE, NoStatus, data)
  /\ calls' = calls + 1
  /\ UNCHANGED <<schema, store, snap, existsViaCreation, hasRunSuccessfully,
                 transient, inRun, updates>>

UpdateActions_firstEntryOnly(data, i) ==
  LET set == {j \in 1..Len(FieldOrder) : data[FieldOrder[j]] # Undef}
      first == CHOOSE j \in set : \A k \in set : j <= k
  IN IF set = {} THEN <<>>
     ELSE <<Action("Update", [EmptyData EXCEPT ![FieldOrder[first]] = data[FieldOrder[first]]],
                   NoCallback)>>

\* The Update actions update(data) pushes: one per entry, in key order.
RECURSIVE UpdateActions(_, _)
UpdateActions(data, i) ==
  IF i > Len(FieldOrder) THEN <<>>
  ELSE LET f == FieldOrder[i]
       IN (IF data[f] # Undef
           THEN <<Action("Update", [EmptyData EXCEPT ![f] = data[f]], NoCallback)>>
           ELSE <<>>) \o UpdateActions(data, i + 1)

\* update(data)
update(data) ==
  /\ Idle
  /\ IF isEmpty(data) THEN UNCHANGED <<actions, rawData>>
     ELSE /\ actions' = actions \o UpdateActions(data, 1)
          /\ rawData' = Merge(rawData, data)
  /\ call' = Call("update", "returned", "none", FALSE, NoStatus, data)
  /\ calls' = calls + 1
  /\ updates' = Append(updates, data)
  /\ UNCHANGED <<schema, store, snap, existsViaCreation, hasRunSuccessfully,
                 transient, inRun>>

\* The keys delete(keys) removes from the view before it returns or throws.
RECURSIVE DeletedKeys(_)
DeletedKeys(keys) ==
  IF keys = <<>> \/ isBaseProp(Head(keys)) THEN {}
  ELSE {Head(keys)} \cup DeletedKeys(Tail(keys))
DeleteThrows_firstKeyOnly(keys) == keys # <<>> /\ isBaseProp(keys[1])
\* delete(keys) throws: forEach reaches a protected key.
DeleteThrows(keys) == \E i \in 1..Len(keys) : isBaseProp(keys[i])

\* delete(keys) and delete()
delete(keys) ==
  /\ Idle
  /\ IF keys # NoKeys
     THEN /\ rawData' = [f \in Fields |-> IF f \in DeletedKeys(keys) THEN Undef
                                          ELSE rawData[f]]
          /\ actions' = actions
          /\ call' = [Call("delete", IF DeleteThrows(keys) THEN "threw" ELSE "returned",
                            IF DeleteThrows(keys) THEN "protected" ELSE "none",
                            FALSE, NoStatus, EmptyData) EXCEPT !.keys = keys]
     ELSE /\ actions' = Append(actions, Action("Delete", EmptyData, NoCallback))
          /\ rawData' = rawData
          /\ call' = Call("deleteAll", "returned", "none", FALSE, NoStatus, EmptyData)
  /\ calls' = calls + 1
  /\ UNCHANGED <<schema, store, snap, existsViaCreation, hasRunSuccessfully,
                 transient, inRun, updates>>

\* attach(callback)
attach(callback) ==
  /\ Idle
  /\ actions' = Append(actions, Action("Callback", EmptyData, callback))
  /\ call' = Call("attach", "returned", "none", FALSE, NoStatus, EmptyData)
  /\ calls' = calls + 1
  /\ UNCHANGED <<schema, store, rawData, snap, existsViaCreation, hasRunSuccessfully,
                 transient, inRun, updates>>

\* ------------------------------------------------------------------- run()
Finally_keepsConfig(outcome, error, tx, status) ==
  /\ currentRunConfig' = currentRunConfig
  /\ errors' = <<>>
  /\ lastRunStatus' = NoStatus
  /\ actionsRun' = {}
  /\ pc' = "idle"
  /\ call' = Call("run", outcome, error, tx, status, EmptyData)
\* The finally block of run(), with how the call ended.
Finally(outcome, error, tx, status) ==
  /\ currentRunConfig' = DefaultConfig(schema)
  /\ errors' = <<>>
  /\ lastRunStatus' = NoStatus
  /\ actionsRun' = {}
  /\ pc' = "idle"
  /\ call' = Call("run", outcome, error, tx, status, EmptyData)

\* "Only reset if successful"
Succeed_keepsLog ==
  /\ hasRunSuccessfully' = TRUE
  /\ actions' = actions
  /\ updates' = updates

Succeed ==
  /\ hasRunSuccessfully' = TRUE
  /\ actions' = <<>>
  /\ updates' = <<>>

\* run(config) up to its first suspension: either buildTransaction returns
\* nothing and run() resolves at once, or the host transaction is started.
run(config) ==
  /\ Idle
  /\ calls' = calls + 1
  /\ runPre' = Pre
  /\ runConfig' = config
  /\ attempts' = 0
  /\ txOps' = <<>>
  /\ txEnqueued' = <<>>
  /\ txLog' = <<>>
  /\ IF buildTransactionSkips(actions, config.forceGet = "yes")
     THEN /\ Finally("resolved", "none", FALSE, NoStatus)
          /\ UNCHANGED <<actions, rawData, snap, existsViaCreation, hasRunSuccessfully>>
     ELSE /\ currentRunConfig' = setCurrentConfig(schema, config)
          /\ pc' = "tx"
          /\ call' = Call("run", "pending", "none", TRUE, NoStatus, EmptyData)
          /\ UNCHANGED <<actions, rawData, snap, existsViaCreation, hasRunSuccessfully,
                         errors, lastRunStatus, actionsRun>>
  /\ UNCHANGED <<schema, store, updates>>

\* The attempt the host transaction makes next, and the store its writes
\* would leave.
ThisAttempt == Attempt(Self, dbDoc, runConfig.forceGet = "yes")
Committed(ops) == Commit([ok |-> TRUE, db |-> dbDoc, mirror |-> mirror],
                         SelectSeq(ops, IsWrite))

AttemptRetried_callbacksMutateModel ==
  /\ pc = "tx"
  /\ ~ThisAttempt.threw
  /\ attempts + 1 < Ceiling(runConfig.maxAttempts)
  /\ attempts' = attempts + 1
  /\ txOps' = ThisAttempt.ops
  /\ txEnqueued' = ThisAttempt.state.actions
  /\ txLog' = txLog
  /\ actions' = actions \o ThisAttempt.state.actions
  /\ UNCHANGED <<schema, store, rawData, snap, existsViaCreation,
                 hasRunSuccessfully, transient, pc, runConfig, call, runPre, updates, calls>>
\* An attempt whose commit meets contention: the host runs the function again.
AttemptRetried ==
  /\ pc = "tx"
  /\ ~ThisAttempt.threw
  /\ attempts + 1 < Ceiling(runConfig.maxAttempts)
  /\ attempts' = attempts + 1
  /\ txOps' = ThisAttempt.ops
  /\ txEnqueued' = ThisAttempt.state.actions
  /\ txLog' = txLog
  /\ UNCHANGED <<schema, store, actions, rawData, snap, existsViaCreation,
                 hasRunSuccessfully, transient, pc, runConfig, call, runPre, updates, calls>>

\* An attempt in which throwIfInvalid throws: the transaction is rolled back
\* and run() rejects with the validation error.
AttemptThrows ==
  /\ pc = "tx"
  /\ ThisAttempt.threw
  /\ attempts' = attempts + 1
  /\ txOps' = ThisAttempt.ops
  /\ txEnqueued' = ThisAttempt.state.actions
  /\ txLog' = txLog
  /\ Finally("rejected", "validation", TRUE, NoStatus)
  /\ UNCHANGED <<schema, store, actions, rawData, snap, existsViaCreation,
                 hasRunSuccessfully, runConfig, runPre, updates, calls>>

TransactionFails_resetsRawData ==
  /\ pc = "tx"
  /\ ~ThisAttempt.threw
  /\ \/ ~Committed(ThisAttempt.ops).ok
     \/ attempts + 1 = Ceiling(runConfig.maxAttempts)
  /\ attempts' = attempts + 1
  /\ txOps' = ThisAttempt.ops
  /\ txEnqueued' = ThisAttempt.state.actions
  /\ txLog' = txLog
  /\ Finally("rejected", "host", TRUE, NoStatus)
  /\ rawData' = IF actionsContainDelete(actions)
                THEN pick({getIdFieldFromSchema(schema)}, rawData) ELSE rawData
  /\ UNCHANGED <<schema, store, actions, snap, existsViaCreation,
                 hasRunSuccessfully, runConfig, runPre, updates, calls>>
\* The host transaction fails: a write is refused at commit, or the last
\* attempt allowed meets contention.  run() rejects with the host's error.
TransactionFails ==
  /\ pc = "tx"
  /\ ~ThisAttempt.threw
  /\ \/ ~Committed(ThisAttempt.ops).ok
     \/ attempts + 1 = Ceiling(runConfig.maxAttempts)
  /\ attempts' = attempts + 1
  /\ txOps' = ThisAttempt.ops
  /\ txEnqueued' = ThisAttempt.state.actions
  /\ txLog' = txLog
  /\ Finally("rejected", "host", TRUE, NoStatus)
  /\ UNCHANGED <<schema, store, actions, rawData, snap, existsViaCreation,
                 hasRunSuccessfully, runConfig, runPre, updates, calls>>

\* What the step functions of an attempt may leave in state.errors: nothing,
\* or one error recorded without unwinding.
StepErrors == {<<>>, <<"step">>}

\* An attempt that commits, and run() from there to its next suspension or
\* its end: updateModelWithTransactionState, manageLastRunStatus, the throw
\* of an accumulated error, forceGetIfNeeded.
AttemptCommits ==
  \E recorded \in StepErrors :
  LET res == ThisAttempt
      st == Committed(res.ops)
      state == [res.state EXCEPT !.errors = recorded]
      m == updateModelWithTransactionState([rawData |-> rawData, snap |-> snap], state)
  IN /\ pc = "tx"
     /\ ~res.threw
     /\ st.ok
     /\ attempts' = attempts + 1
     /\ txOps' = res.ops
     /\ txEnqueued' = res.state.actions
     /\ txLog' = actions
     /\ dbDoc' = st.db
     /\ mirror' = st.mirror
     /\ rawData' = m.rawData
     /\ snap' = m.snap
     /\ existsViaCreation' = manageLastRunStatus(existsViaCreation, state.lastRunStatus)
     /\ IF state.errors # <<>>
        THEN /\ Finally("rejected", "errors", TRUE, state.lastRunStatus)
             /\ UNCHANGED <<actions, hasRunSuccessfully, updates>>
        ELSE IF forceGetIfNeeded(runConfig, state.actionsRun)
        THEN /\ pc' = "refresh"
             /\ actionsRun' = state.actionsRun
             /\ errors' = state.errors
             /\ lastRunStatus' = state.lastRunStatus
             /\ UNCHANGED <<actions, hasRunSuccessfully, currentRunConfig, call, updates>>
        ELSE /\ Succeed
             /\ Finally("resolved", "none", TRUE, state.lastRunStatus)
     /\ UNCHANGED <<schema, runConfig, runPre, calls>>

\* getSnap() of forceGetIfNeeded reads the document and run() resolves.
RefreshReads ==
  LET m == syncData([rawData |-> rawData, snap |-> snap], getRecord(dbDoc))
  IN /\ pc = "refresh"
     /\ rawData' = m.rawData
     /\ snap' = m.snap
     /\ Succeed
     /\ Finally("resolved", "none", TRUE, lastRunStatus)
     /\ UNCHANGED <<schema, store, existsViaCreation, runConfig, attempts, txOps,
                    txEnqueued, txLog, runPre, calls>>

\* getRecord fails (the read is outside the transaction): run() rejects.
RefreshFails ==
  /\ pc = "refresh"
  /\ Finally("rejected", "read", TRUE, lastRunStatus)
  /\ UNCHANGED <<schema, store, actions, rawData, snap, existsViaCreation,
                 hasRunSuccessfully, runConfig, attempts, txOps, txEnqueued, txLog, runPre,
                 updates, calls>>

\* ------------------------------------------------------------ specification
Next ==
  \/ \E data \in CreatePayloads, force \in BOOLEAN : create(data, force)
  \/ \E data \in UpdatePayloads : update(data)
  \/ \E keys \in DeleteKeys : delete(keys)
  \/ \E callback \in Callbacks : attach(callback)
  \/ \E config \in RunConfigs : run(config)
  \/ AttemptRetried
  \/ AttemptThrows
  \/ TransactionFails
  \/ AttemptCommits
  \/ RefreshReads
  \/ RefreshFails

Spec == Init /\ [][Next]_vars

\* --------------------------------------- mutation calls while run() is awaited
\* run() is async: while it is suspended on runTransaction or on getSnap the
\* caller's code runs and may call a mutation method of the same Model.  One
\* call of each method, as the actions it pushes and the data it puts in the
\* view.
CallsDuringRun ==
  { [method |-> "create", pushed |-> <<Action("Create", InitialPayload, NoCallback)>>,
     data |-> InitialPayload],
    [method |-> "update", pushed |-> UpdateActions(Data(Undef, Undef, "v2"), 1),
     data |-> Data(Undef, Undef, "v2")],
    [method |-> "deleteAll", pushed |-> <<Action("Delete", EmptyData, NoCallback)>>,
     data |-> EmptyData],
    [method |-> "attach", pushed |-> <<Action("Callback", EmptyData, "cbNoop")>>,
     data |-> EmptyData] }

\* create, update, delete() or attach called between two suspensions of run()
callDuringRun(m) ==
  /\ pc \in {"tx", "refresh"}
  /\ calls < MaxCalls
  /\ actions' = actions \o m.pushed
  /\ rawData' = Merge(rawData, m.data)
  /\ calls' = calls + 1
  /\ updates' = IF m.method = "update" THEN Append(updates, m.data) ELSE updates
  /\ UNCHANGED <<schema, store, snap, existsViaCreation, hasRunSuccessfully,
                 transient, inRun, call>>

NextDuringRun ==
  \/ Next
  \/ \E m \in CallsDuringRun : callDuringRun(m)

SpecDuringRun == Init /\ [][NextDuringRun]_vars

TypeOK ==
  /\ pc \in {"idle", "tx", "refresh"}
  /\ Len(actions) <= 2 * MaxCalls + 1
  /\ calls <= MaxCalls

\* ------------------------------------------------------------------ claims
\* A run() call has completed, and no other call was made since.
RunDone == pc = "idle" /\ call.op = "run"
RunResolved == RunDone /\ call.outcome = "resolved"
RunRejected == RunDone /\ call.outcome = "rejected"
\* The Action Log the run() found holds exactly one action, of this type.
OnlyAction(type) == Len(runPre.actions) = 1 /\ runPre.actions[1].type = type
\* The configuration in force during the last run().
RunCurrentConfig == setCurrentConfig(schema, runConfig)
IsPrimaryDataWrite(op) == op.coll = "primary" /\ op.kind \in {"set", "create", "setMerge"}
IsMirrorWrite(op) == op.coll = "mirror" /\ op.kind # "get"
Ops == {txOps[i] : i \in 1..Len(txOps)}

\* C1: a run() that resolves on a Model whose Action Log held only the Create
\* of create(data) and whose document did not exist returned a state with
\* lastRunStatus force-created, left the document in the database with
\* exactly the create payload, and leaves model.exists true, the Action Log
\* empty and hasRunSuccessfully true.
C1_ForceCreate ==
  (RunResolved /\ OnlyAction("Create") /\ ~runPre.dbDoc.exists)
    => /\ call.status = "force-created"
       /\ dbDoc = Doc(runPre.actions[1].data)
       /\ exists
       /\ actions = <<>>
       /\ hasRunSuccessfully
C1_Witness ==
  /\ RunResolved /\ OnlyAction("Create") /\ ~runPre.dbDoc.exists
  /\ call.status = "force-created" /\ dbDoc.exists /\ exists

\* C2 (as claimed): a run() that resolves on a Model whose Action Log held
\* only the FindOrCreate of create(data, false) and whose document existed
\* changed no field the document had, and its state's lastRunStatus is found.
C2_FindOrCreateKeepsDocument ==
  (RunResolved /\ OnlyAction("FindOrCreate") /\ runPre.dbDoc.exists)
    => /\ call.status = "found"
       /\ \A f \in Keys(runPre.dbDoc.data) : dbDoc.data[f] = runPre.dbDoc.data[f]
       /\ \A op \in Ops : ~IsPrimaryDataWrite(op)

\* C3 (as claimed): after a run() that resolves on an Action Log holding a
\* Delete, the document does not exist and model.exists is false.
C3_DeleteThenNotExists ==
  (RunResolved /\ actionsContainDelete(runPre.actions))
    => ~dbDoc.exists /\ ~exists

\* C4: when auto-validation is on for the run, a create is queued (and no
\* Delete) and the data of the view does not decode, run() rejects with the
\* validation error, the primary and the mirror documents are as before, and
\* the view and the Action Log are as the run found them.
C4_InvalidCreateRejects ==
  (/\ RunDone
   /\ RunCurrentConfig.autoValidate
   /\ actionsContainCreate(runPre.actions) \/ actionsContainFindOrCreate(runPre.actions)
   /\ ~actionsContainDelete(runPre.actions)
   /\ ~decode(Fields, runPre.rawData))
    => /\ call.outcome = "rejected" /\ call.error = "validation"
       /\ dbDoc = runPre.dbDoc
       /\ mirror = runPre.mirror
       /\ rawData = runPre.rawData
       /\ actions = runPre.actions
C4_Witness ==
  /\ RunRejected /\ call.error = "validation"
  /\ OnlyAction("Create")
  /\ runPre.actions[1].data["a"] = Bad
  /\ rawData["a"] = Bad
  /\ ~dbDoc.exists

\* C5: when a run() whose attempt invoked the callback that calls
\* update({c: "v1"}) resolves, the committed document has c = "v1".
InvokedSetC ==
  /\ ~actionsContainDelete(runPre.actions)
  /\ \E i \in 1..Len(runPre.actions) : runPre.actions[i].callback = "cbSetC"
C5_CallbackUpdatePersisted ==
  (RunResolved /\ InvokedSetC) => dbDoc.exists /\ dbDoc.data["c"] = "v1"
C5_Witness ==
  /\ RunResolved /\ InvokedSetC
  /\ ~actionsContainUpdate(runPre.actions)
  /\ runPre.dbDoc.data["c"] # "v1"
  /\ dbDoc.data["c"] = "v1"

\* C6: in every attempt made with mirroring active (a rule declared, mirror
\* enabled for the run, the mirror id known), a create or update write of
\* data d comes with mirror writes whose payload is exactly d restricted to
\* the rule's fields, all to the mirror document of that id; when that
\* restriction is empty the attempt makes no mirror write.
MirrorIdOfRun ==
  IF schema.mirror.idField = NoField THEN "self" ELSE runPre.rawData[schema.mirror.idField]
MirrorActive ==
  schema.mirror.declared /\ RunCurrentConfig.mirror /\ MirrorIdOfRun # Undef
C6_MirrorPayloadFiltered ==
  \A op \in Ops :
    (IsPrimaryDataWrite(op) /\ MirrorActive) =>
      LET d == [f \in Fields |-> IF f \in schema.mirror.fields THEN op.data[f] ELSE Undef]
      IN IF isEmpty(d)
         THEN \A m \in Ops : ~IsMirrorWrite(m)
         ELSE /\ \E m \in Ops : IsMirrorWrite(m)
              /\ \A m \in Ops : IsMirrorWrite(m) =>
                   m.data = d /\ ~m.marker /\ m.id = MirrorIdOfRun
C6_Witness ==
  /\ MirrorActive
  /\ \E op \in Ops : /\ IsPrimaryDataWrite(op)
                       /\ op.data = Data("v1", Undef, "v2")
  /\ \E m \in Ops : IsMirrorWrite(m) /\ m.data = Data("v1", Undef, Undef)
C6_WitnessSkip ==
  /\ MirrorActive
  /\ \E op \in Ops : IsPrimaryDataWrite(op) /\ op.data = Data(Undef, Undef, "v2")
  /\ \A m \in Ops : ~IsMirrorWrite(m)

\* C7: a run() called with an empty Action Log and no forceGet in its
\* argument starts no transaction, makes no call on a transaction handle,
\* resolves, and leaves rawData, the Action Log, the snapshot,
\* existsViaCreation, hasRunSuccessfully and the store as they were.
C7_EmptyRunIsNoOp ==
  (RunDone /\ runPre.actions = <<>> /\ runConfig.forceGet # "yes")
    => /\ call.outcome = "resolved"
       /\ ~call.tx /\ attempts = 0 /\ txOps = <<>>
       /\ rawData = runPre.rawData
       /\ actions = runPre.actions
       /\ snap = runPre.snap
       /\ existsViaCreation = runPre.existsViaCreation
       /\ hasRunSuccessfully = runPre.hasRunSuccessfully
       /\ dbDoc = runPre.dbDoc /\ mirror = runPre.mirror
C7_Witness ==
  /\ RunResolved /\ runPre.actions = <<>> /\ runConfig.forceGet # "yes"
  /\ ~call.tx
  /\ hasRunSuccessfully
  /\ calls > 1

\* C8: a delete(keys) call whose keys include a protected base field throws,
\* and the step of the call leaves the Action Log and the store unchanged
\* and starts no run.
HasProtectedKey(keys) == \E i \in 1..Len(keys) : keys[i] \in baseProps
C8_ProtectedDeleteThrows ==
  [][(calls' = calls + 1 /\ call'.op = "delete" /\ HasProtectedKey(call'.keys))
       => /\ call'.outcome = "threw"
          /\ actions' = actions
          /\ dbDoc' = dbDoc /\ mirror' = mirror
          /\ pc' = "idle" /\ txOps' = txOps]_vars
C8_Witness ==
  /\ call.op = "delete" /\ HasProtectedKey(call.keys)
  /\ call.outcome = "threw"
  /\ ~actionsContainDelete(actions)

\* C9: when run() resolves on an Action Log that holds only Update actions,
\* those of the update() calls made since the log was last cleared, the attempt
\* made one write to the primary document, a merge-write of the shallow
\* merge of the payloads in call order, and the document holds that merge
\* over its former fields.
RECURSIVE MergeAll(_)
MergeAll(payloads) ==
  IF payloads = <<>> THEN EmptyData
  ELSE LET n == Len(payloads)
       IN [f \in Fields |-> IF payloads[n][f] # Undef THEN payloads[n][f]
                             ELSE MergeAll(SubSeq(payloads, 1, n - 1))[f]]
OnlyUpdateCalls ==
  /\ runPre.updates # <<>>
  /\ \A i \in 1..Len(runPre.actions) : runPre.actions[i].type = "Update"
C9_UpdatesFoldInCallOrder ==
  (RunResolved /\ OnlyUpdateCalls)
    => LET merged == MergeAll(runPre.updates)
       IN /\ \E op \in Ops : /\ op.coll = "primary" /\ op.kind = "setMerge"
                               /\ op.data = merged
          /\ \A op \in Ops : (op.coll = "primary" /\ op.kind # "get") => op.data = merged
          /\ \A f \in Fields : dbDoc.data[f] =
                IF merged[f] # Undef THEN merged[f] ELSE runPre.dbDoc.data[f]
C9_Witness ==
  /\ RunResolved /\ OnlyUpdateCalls
  /\ Len(runPre.updates) = 2
  /\ runPre.updates[1]["a"] = "v1" /\ runPre.updates[2]["a"] = "v2"
  /\ dbDoc.data["a"] = "v2" /\ dbDoc.data["c"] = "v2"

\* C10: when a run() that executed a transaction resolves, the Action Log is
\* empty and hasRunSuccessfully is true; and no step sets hasRunSuccessfully
\* back to false.
C10_SuccessIsPermanent ==
  /\ []((RunResolved /\ call.tx) => (actions = <<>> /\ hasRunSuccessfully))
  /\ [][hasRunSuccessfully => hasRunSuccessfully']_vars
C10_Witness ==
  /\ hasRunSuccessfully
  /\ RunRejected
  /\ actions # <<>>

\* C11: whenever a run() has completed (resolved after a transaction, returned
\* early without one, or rejected), the transient fields are back at rest:
\* errors is empty, lastRunStatus is unset, actionsRun is empty and the active
\* run configuration is the schema's default configuration.
C11_TransientsReset ==
  RunDone => /\ errors = <<>>
             /\ lastRunStatus = NoStatus
             /\ actionsRun = {}
             /\ currentRunConfig = schema.config
\* a run whose merged configuration differed from the default has rejected
\* after its transaction was reconciled
C11_Witness ==
  /\ RunRejected /\ call.tx /\ call.error \in {"errors", "read"}
  /\ setCurrentConfig(schema, runConfig) # schema.config
  /\ currentRunConfig = schema.config /\ lastRunStatus = NoStatus
C11_WitnessEarly ==
  /\ RunResolved /\ ~call.tx
  /\ setCurrentConfig(schema, runConfig) # schema.config
  /\ currentRunConfig = schema.config

\* The local optimistic state is as run() found it.
LocalStateAsBefore ==
  /\ rawData = runPre.rawData
  /\ snap = runPre.snap
  /\ existsViaCreation = runPre.existsViaCreation

\* C12 (as claimed): when run() rejects, for whatever reason, the local view,
\* the snapshot and existsViaCreation are what they were just before run()
\* was called.
C12_RejectKeepsLocalState == RunRejected => LocalStateAsBefore
\* C12 (amended): when run() rejects, the Action Log and hasRunSuccessfully
\* are as run() found them; and when it rejects before the transaction has
\* committed (validation failure, failure of the host transaction) the local
\* view, the snapshot and existsViaCreation are as run() found them too.  A
\* rejection after the commit keeps what reconciliation applied.
C12_RejectBeforeCommitKeepsLocalState ==
  RunRejected =>
    /\ actions = runPre.actions
    /\ hasRunSuccessfully = runPre.hasRunSuccessfully
    /\ call.error \in {"validation", "host"} => LocalStateAsBefore
\* the host transaction of a run with a Delete queued and a non-empty view
\* has failed
C12_Witness ==
  /\ RunRejected /\ call.error = "host"
  /\ actionsContainDelete(runPre.actions)
  /\ ~isEmpty(runPre.rawData)
  /\ \E op \in Ops : IsWrite(op)

\* The calls of the delete path, in the order it makes them.
IsDeletePathOp(op) ==
  \/ op.kind = "get" /\ op.coll = "primary"
  \/ op.kind = "setMerge" /\ op.coll = "mirror" /\ op.marker
  \/ op.kind = "delete" /\ op.coll = "primary"
DeletePathRank(op) ==
  CASE op.kind = "get" -> 1 [] op.coll = "mirror" -> 2 [] OTHER -> 3

\* C13: when the Action Log run() found contains a Delete, every attempt makes
\* only the calls of the delete path: at most one read, then at most one
\* delete marker on the mirror document, then the delete of the primary
\* document; it writes no data, resolves no query and no callback enqueues
\* anything, whatever else is queued.
C13_DeleteShortCircuits ==
  (actionsContainDelete(runPre.actions) /\ attempts >= 1) =>
    /\ txOps # <<>>
    /\ \A op \in Ops : IsDeletePathOp(op)
    /\ \A i, j \in 1..Len(txOps) :
         i < j => DeletePathRank(txOps[i]) < DeletePathRank(txOps[j])
    /\ txOps[Len(txOps)].kind = "delete"
    /\ txEnqueued = <<>>
\* a committed run whose log held a Delete after a create and a callback
\* that updates, with the delete marker written to the mirror document
C13_Witness ==
  /\ RunResolved /\ call.status = "deleted"
  /\ runPre.actions[Len(runPre.actions)].type = "Delete"
  /\ actionsContainCreate(runPre.actions)
  /\ \E i \in 1..Len(runPre.actions) : runPre.actions[i].callback = "cbSetC"
  /\ \E op \in Ops : op.coll = "mirror"
C13_WitnessQuery ==
  /\ RunResolved /\ call.status = "deleted"
  /\ actionsContain(runPre.actions, "Query")

\* C14: every attempt of one run() starts from the same inputs: while the
\* transaction is in flight the Action Log, the view, the snapshot and
\* existsViaCreation are as run() found them, also when a queued callback
\* calls mutation methods during an attempt; and an attempt made after a
\* retry issues the same calls, and has the same actions enqueued by
\* callbacks, as the attempt before it on the same database contents.
C14_AttemptsRepeat ==
  /\ [](pc = "tx" => /\ actions = runPre.actions
                     /\ LocalStateAsBefore
                     /\ dbDoc = runPre.dbDoc)
  /\ [][(pc = "tx" /\ attempts >= 1 /\ attempts' = attempts + 1)
          => (txOps' = txOps /\ txEnqueued' = txEnqueued)]_vars
\* a run with a callback that updates has committed on its second attempt
C14_Witness ==
  /\ RunResolved /\ attempts = 2
  /\ txEnqueued # <<>>
  /\ \E op \in Ops : IsPrimaryDataWrite(op) /\ op.data["c"] = "v1"

\* C15: when a Delete is queued, mirroring is active, the mirror rule names an
\* id-field whose value the view does not hold and the stored document holds
\* it, the attempt reads the document, then writes the delete marker to the
\* mirror document whose id is the value read, then deletes the primary
\* document.
C15_DeleteLearnsMirrorId ==
  LET idField == getIdFieldFromSchema(schema)
  IN (/\ actionsContainDelete(runPre.actions) /\ attempts >= 1
      /\ schema.mirror.declared /\ RunCurrentConfig.mirror
      /\ idField # NoField
      /\ ~Truthy(runPre.rawData[idField])
      /\ runPre.dbDoc.exists /\ Truthy(runPre.dbDoc.data[idField]))
     => /\ Len(txOps) = 3
        /\ txOps[1].kind = "get" /\ txOps[1].coll = "primary"
        /\ txOps[2].kind = "setMerge" /\ txOps[2].coll = "mirror" /\ txOps[2].marker
        /\ txOps[2].id = runPre.dbDoc.data[idField]
        /\ txOps[3].kind = "delete" /\ txOps[3].coll = "primary"

\* C16: delete() with no arguments appends exactly one Delete action to the
\* Action Log and, as it returns and before any run(), leaves the local data
\* view empty.
C16_DeleteEmptiesView ==
  [][(calls' = calls + 1 /\ call'.op = "deleteAll")
      => /\ actions' = Append(actions, Action("Delete", EmptyData, NoCallback))
         /\ rawData' = EmptyData]_vars

\* C17: every write an attempt issues on the mirror document, for a create,
\* an update or a delete and for a plain or a dot-path mirror key, is a
\* merge-write (set with merge); no write of another kind is made to it.
C17_MirrorWritesAreMerges ==
  \A op \in Ops : IsMirrorWrite(op) => op.kind = "setMerge"

\* C18: after every run() that executed a transaction and resolved,
\* existsViaCreation is true exactly when the last status of that run is
\* updated, created or force-created; a run that ends found, not-found or
\* deleted leaves it false, also when an earlier run had set it true.
C18_ExistsViaCreationFollowsStatus ==
  (RunResolved /\ call.tx) =>
    (existsViaCreation <=> call.status \in StatusesOfExistence)
\* a run that ended found on a Model an earlier run had created
C18_Witness ==
  /\ RunResolved /\ call.tx
  /\ runPre.existsViaCreation /\ runPre.hasRunSuccessfully
  /\ call.status = "found"
  /\ ~existsViaCreation
C18_WitnessDeleted ==
  /\ RunResolved /\ call.tx
  /\ runPre.existsViaCreation
  /\ call.status = "deleted"
  /\ ~existsViaCreation
C18_WitnessNotFound ==
  /\ RunResolved /\ call.tx
  /\ call.status = "not-found"
  /\ ~existsViaCreation

\* C19: the forceGet and maxAttempts that govern a run are the caller's
\* options merged over the schema's defaults: with forceGet in force after the
\* merge, a run() on an empty Action Log starts a transaction and reads the
\* document, and a run() that created the document reads it again after the
\* commit; with maxAttempts of one in force after the merge, the host makes
\* one attempt only.
C19_MergedOptionsGovern ==
  RunDone =>
    /\ (RunCurrentConfig.forceGet /\ runPre.actions = <<>>)
         => (call.tx /\ \E op \in Ops : op.kind = "get")
    /\ (RunCurrentConfig.forceGet /\ call.outcome = "resolved"
          /\ call.status \in {"created", "force-created"})
         => snap = Snapshot(dbDoc)
    /\ RunCurrentConfig.maxAttempts = "one" => attempts <= 1
\* C19, part by part: each is a case in which the caller omits the option
\* and the schema default sets it.
C19_DefaultForceGetReadsOnEmptyLog ==
  (RunDone /\ runConfig.forceGet = Undef /\ schema.config.forceGet
     /\ runPre.actions = <<>>) => call.tx
C19_DefaultForceGetRefreshes ==
  (RunResolved /\ runConfig.forceGet = Undef /\ schema.config.forceGet
     /\ call.status \in {"created", "force-created"}) => snap = Snapshot(dbDoc)
C19_DefaultMaxAttemptsIsCeiling ==
  (RunDone /\ runConfig.maxAttempts = Undef /\ schema.config.maxAttempts = "one")
    => attempts <= 1

\* C20: in every attempt, all the reads made on the transaction handle (the
\* resolution of a query and the gets) are made before its first write: no
\* read follows a write.
C20_ReadsBeforeWrites ==
  \A i, j \in 1..Len(txOps) : (i < j /\ IsWrite(txOps[i])) => ~IsRead(txOps[j])
\* an attempt that read for forceGet and then wrote the primary and the
\* mirror document
C20_Witness ==
  /\ attempts >= 1 /\ runConfig.forceGet = "yes"
  /\ Len(txOps) >= 3
  /\ IsRead(txOps[1])
  /\ \E op \in Ops : IsPrimaryDataWrite(op)
  /\ \E op \in Ops : IsMirrorWrite(op)
\* an attempt that resolved a query, read for a callback and then wrote
C20_WitnessQuery ==
  /\ Len(txOps) >= 3
  /\ txOps[1].kind = "query" /\ txOps[2].kind = "get"
  /\ IsWrite(txOps[Len(txOps)])

\* The last run() returned after its host transaction had committed.
RunCommitted == RunDone /\ call.tx /\ call.error \notin {"validation", "host"}

\* C21: whenever the host transaction of a run() has committed, the Action Log
\* is empty when run() hands control back to the caller, whether run()
\* resolves or rejects (an accumulated state error, a failing refresh read
\* after a create), so that no committed action is replayed by a later run().
C21_CommittedLogIsCleared == RunCommitted => actions = <<>>

\* The actions of the log, at the step that ends a run(), that no committed
\* attempt has read: those pushed after the attempt that committed, or all
\* those pushed since run() was called when no attempt committed.
Uncommitted ==
  LET from == IF call'.error \notin {"validation", "host"}
              THEN Len(txLog') ELSE Len(runPre.actions)
  IN SubSeq(actions, from + 1, Len(actions))
IsSuffix(s, t) ==
  Len(s) <= Len(t) /\ SubSeq(t, Len(t) - Len(s) + 1, Len(t)) = s

\* C22: an action that create(), update(), delete() or attach() appended
\* while a run() on the same Model was in flight (suspended on the host
\* transaction or on the refresh read) is not discarded uncommitted: when
\* that run() completes, every action that the committed attempt did not
\* read is still in the Action Log.
C22_InFlightActionsKept ==
  [][(pc # "idle" /\ pc' = "idle") => IsSuffix(Uncommitted, actions')]_vars

\* C23: with autoValidate in force, every payload the create or the update
\* path of an attempt writes to the primary document has passed validation
\* in that attempt: every field of the written payload is among the data
\* throwIfInvalid checked, at the value that is written, fields contributed
\* by actions that callbacks enqueued included.
C23_WrittenPayloadValidated ==
  (attempts >= 1 /\ RunCurrentConfig.autoValidate) =>
    \A op \in Ops : IsPrimaryDataWrite(op) =>
      \A f \in Keys(op.data) :
        validatedData([actions |-> runPre.actions, rawData |-> runPre.rawData])[f]
          = op.data[f]
\* C23 without callbacks: the same for runs whose log holds no callback.
C23_WrittenPayloadValidatedNoCallback ==
  (attempts >= 1 /\ RunCurrentConfig.autoValidate
     /\ ~actionsContainCallback(runPre.actions)) =>
    \A op \in Ops : IsPrimaryDataWrite(op) =>
      \A f \in Keys(op.data) :
        validatedData([actions |-> runPre.actions, rawData |-> runPre.rawData])[f]
          = op.data[f]

\* C24: when delete(keys) throws because one of the keys is a protected base
\* field, the local data view and the Action Log are what they were before
\* the call, wherever the protected key stands in the list, also after
\* unprotected keys.
C24_ProtectedDeleteChangesNothing ==
  [][(calls' = calls + 1 /\ call'.op = "delete" /\ call'.outcome = "threw")
      => (rawData' = rawData /\ actions' = actions)]_vars
\* C24 for a list whose first key is the protected one.
C24_ProtectedFirstChangesNothing ==
  [][(calls' = calls + 1 /\ call'.op = "delete" /\ call'.outcome = "threw"
        /\ isBaseProp(call'.keys[1]))
      => (rawData' = rawData /\ actions' = actions)]_vars
====
